---- MODULE Spec2Model ----
(***************************************************************************)
(* The dead-function analysis of mirecl/deadcode as a state machine.       *)
(*                                                                         *)
(* The repository holds two builds of the analyzer, both `package          *)
(* deadcode` and both defining runAnalysis, run and the constructor:       *)
(*   src/deadcode.go       (plugin "deadcode", NewDeadCode, Settings)      *)
(*   src/unnamed/part_000  (plugin "deadfunc", New, no settings)           *)
(* The variable `build` says which of the two is running; every action     *)
(* follows the text of that build.                                         *)
(*                                                                         *)
(* The collaborators (packages.Load, ssautil, rta.Analyze, the host that   *)
(* calls run) are inputs: their results are drawn from bounded sets.       *)
(***************************************************************************)
EXTENDS Integers, Sequences, FiniteSets, TLC

\* Longest list of function declarations (besides func main) a loaded program has.
MaxFuncs == 2

Range(s) == {s[k] : k \in 1..Len(s)}

Count(s, x) == Cardinality({k \in 1..Len(s) : s[k] = x})

-----------------------------------------------------------------------------
(* Paths.  A package path or a pattern is a sequence of tokens (words and  *)
(* the separators between them); a file name is a sequence of directory    *)
(* components.                                                             *)

Separators == {"/", "-", "."}

IsWordTok(t) == t \notin Separators

\* Byte order of the tokens used ('/' sorts before every letter).
TokRank(t) ==
    CASE t = "/" -> 0
      [] t = "app" -> 1
      [] t = "dep" -> 2
      [] t = "internal" -> 3
      [] OTHER -> 4

\* Go's string comparison a < b on package paths.
RECURSIVE PathLess(_, _)
PathLess(a, b) ==
    IF Len(b) = 0 THEN FALSE
    ELSE IF Len(a) = 0 THEN TRUE
    ELSE IF TokRank(Head(a)) # TokRank(Head(b)) THEN TokRank(Head(a)) < TokRank(Head(b))
    ELSE PathLess(Tail(a), Tail(b))

PkgApp == <<"app">>
PkgInternal == <<"app", "/", "internal">>
PkgDep == <<"dep">>
PkgPaths == {PkgApp, PkgInternal, PkgDep}

\* var cwd, _ = os.Getwd()
cwd == <<"w", "app">>

FileMain == <<"w", "app", "main.go">>
FileUtil == <<"w", "app", "internal", "util.go">>
FileDep == <<"w", "mod", "dep", "dep.go">>
Files == {FileMain, FileUtil, FileDep}

RECURSIVE CommonPrefixLen(_, _)
CommonPrefixLen(a, b) ==
    IF Len(a) = 0 \/ Len(b) = 0 \/ Head(a) # Head(b) THEN 0
    ELSE 1 + CommonPrefixLen(Tail(a), Tail(b))

\* filepath.Rel(cwd, filename) on absolute paths: drop the common prefix and
\* climb out of what is left of the base with "..".
FilepathRel(base, target) ==
    LET n == CommonPrefixLen(base, target)
    IN  [k \in 1..(Len(base) - n) |-> ".."] \o SubSeq(target, n + 1, Len(target))

\* Rel / GetFilenameRelative: both paths are absolute, so filepath.Rel succeeds.
Rel(filename) == FilepathRel(cwd, filename)

-----------------------------------------------------------------------------
(* regexp.  A pattern source is a token sequence; Compile parses "^", a    *)
(* literal and a trailing "\b", and rejects an unbalanced "(".             *)

EmptyFlag == <<>>
BadFlag == <<"(">>
\* The values Settings.Filter takes.
FilterFlags == {EmptyFlag, <<"^", "app">>, <<"^", "app", "/", "internal">>, BadFlag}

\* The filterFlag of part_000 before it is resolved.
ModuleFlag == <<"<module>">>

NoModule == <<>>

MetaToks == {".", "(", ")", "^", "$"}

\* regexp.QuoteMeta
RECURSIVE QuoteMeta(_)
QuoteMeta(s) ==
    IF Len(s) = 0 THEN <<>>
    ELSE (IF Head(s) \in MetaToks THEN <<"\\", Head(s)>> ELSE <<Head(s)>>) \o QuoteMeta(Tail(s))

\* The literal of a pattern body: an escaped token stands for itself.
RECURSIVE Unescape(_)
Unescape(s) ==
    IF Len(s) = 0 THEN <<>>
    ELSE IF Head(s) = "\\" /\ Len(s) > 1 THEN <<s[2]>> \o Unescape(SubSeq(s, 3, Len(s)))
    ELSE <<Head(s)>> \o Unescape(Tail(s))

RECURSIVE HasBareParen(_)
HasBareParen(s) ==
    IF Len(s) = 0 THEN FALSE
    ELSE IF Head(s) = "\\" /\ Len(s) > 1 THEN HasBareParen(SubSeq(s, 3, Len(s)))
    ELSE Head(s) \in {"(", ")"} \/ HasBareParen(Tail(s))

CompileFails(src) == HasBareParen(src)

\* regexp.Compile on a pattern that compiles.
Compile(src) ==
    LET anchor == Len(src) > 0 /\ Head(src) = "^"
        s1 == IF anchor THEN Tail(src) ELSE src
        wordb == Len(s1) > 0 /\ s1[Len(s1)] = "\\b"
        s2 == IF wordb THEN SubSeq(s1, 1, Len(s1) - 1) ELSE s1
    IN  [anchor |-> anchor, lit |-> Unescape(s2), wordb |-> wordb]

\* \b at the gap before token j of path
WordBoundary(path, j) ==
    LET left == j > 1 /\ j - 1 <= Len(path) /\ IsWordTok(path[j - 1])
        right == j >= 1 /\ j <= Len(path) /\ IsWordTok(path[j])
    IN  left # right

\* (*regexp.Regexp).MatchString
MatchString(re, path) ==
    \E i \in 1..(Len(path) + 1) :
        /\ re.anchor => i = 1
        /\ i + Len(re.lit) - 1 <= Len(path)
        /\ \A k \in 1..Len(re.lit) : path[i + k - 1] = re.lit[k]
        /\ re.wordb => WordBoundary(path, i + Len(re.lit))

\* filter *regexp.Regexp; nil in deadcode.go when Settings.Filter is empty
NilFilter == [nil |-> TRUE]

-----------------------------------------------------------------------------
(* The loaded program: its function declarations, by source position.      *)

NoPosn == [Filename |-> <<>>, Line |-> 0, Column |-> 0]

\* token.Pos.IsValid, on the position the Pos stands for
IsValid(posn) == posn # NoPosn

DeclMain == [name |-> "main", pkg |-> PkgApp,
             posn |-> [Filename |-> FileMain, Line |-> 3, Column |-> 1]]
DeclHelper == [name |-> "helper", pkg |-> PkgApp,
               posn |-> [Filename |-> FileMain, Line |-> 5, Column |-> 1]]
\* declared on the line of DeclHelper: func helper() {}; func used() {}
DeclUsed == [name |-> "used", pkg |-> PkgApp,
             posn |-> [Filename |-> FileMain, Line |-> 5, Column |-> 20]]
\* a declared func init() of a package that main may or may not import
DeclInit == [name |-> "init", pkg |-> PkgInternal,
             posn |-> [Filename |-> FileUtil, Line |-> 3, Column |-> 1]]
\* a function of a dependency outside the module
DeclDep == [name |-> "Dep", pkg |-> PkgDep,
            posn |-> [Filename |-> FileDep, Line |-> 7, Column |-> 1]]

\* The declarations in source order, file by file.
AllDecls == <<DeclMain, DeclHelper, DeclUsed, DeclInit, DeclDep>>
OtherDecls == {DeclHelper, DeclUsed, DeclInit, DeclDep}

\* The one file of each package.
FileOf(pkgpath) ==
    CASE pkgpath = PkgApp -> FileMain
      [] pkgpath = PkgInternal -> FileUtil
      [] OTHER -> FileDep

\* Sequences over S of length at most n.
SeqsUpTo(S, n) == UNION {[1..m -> S] : m \in 0..n}

\* The programs packages.Load may produce: the declarations besides func main
\* (one entry per IR function: a declaration type-checked twice, as for a test
\* variant, is listed twice), the entries rta finds reachable, the files with
\* a generated marker, and the module path of initial[0].
Programs ==
    {[funcs |-> fs, reach |-> r, gen |-> g, mod |-> m] :
        fs \in SeqsUpTo(OtherDecls, MaxFuncs), r \in SUBSET (1..MaxFuncs),
        g \in SUBSET Files, m \in {PkgApp, NoModule}}

\* ssa names a declared func init "init#1"; "init" is the synthetic initializer.
SsaName(decl) == IF decl.name = "init" THEN "init#1" ELSE decl.name

\* prog.FuncValue(obj): the IR function of a declaration; id is its identity.
FuncValue(decl, id) ==
    [id |-> id, name |-> SsaName(decl), pkg |-> decl.pkg, posn |-> decl.posn]

\* The declarations of the loaded syntax: func main of the main package first.
Declared(prog) == <<DeclMain>> \o prog.funcs

\* The files of the loaded syntax.
LoadedFiles(prog) == {d.posn.Filename : d \in Range(Declared(prog))}

\* The synthetic package initializer of the main package: no source position.
RootInit == [id |-> 0, name |-> "init", pkg |-> PkgApp, posn |-> NoPosn]

Nil == [nil |-> TRUE]

VARIABLES
    build,          \* "deadcode" (src/deadcode.go) or "part000" (src/unnamed/part_000)
    settings,       \* Settings handed to the constructor
    program,        \* what the loader, the IR builder and rta produce
    pc,             \* where the constructor / runAnalysis stands
    filter,         \* the compiled filter, or NilFilter
    sourceFuncs,    \* []*ssa.Function
    generated,      \* the keys of map generated
    reachablePosn,  \* the keys of map reachablePosn
    reachable0,     \* reachablePosn as derived from rta, before the resolver loop
    idx,            \* index of the resolver loop in sourceFuncs
    byPkgPath,      \* map[string]map[*ssa.Function]bool
    keysLeft,       \* package paths the report loop has not yet visited
    fnsLeft,        \* functions of the current package not yet visited
    issues,         \* []Issue
    err,            \* the error returned to the host, "nil" if none
    linter,         \* the *DeadCode the constructor returned, or Nil
    diags,          \* the diagnostics reported through pass.Report
    passed,         \* packages whose pass has run
    runNo,          \* 1 or 2: the constructor may be called again
    prev            \* settings and result of the first call

vars == <<build, settings, program, pc, filter, sourceFuncs, generated, reachablePosn,
          reachable0, idx, byPkgPath, keysLeft, fnsLeft, issues, err, linter, diags,
          passed, runNo, prev>>

Builds == {"deadcode", "part000"}

EmptyMap == [p \in {} |-> {}]

NoPrev == [ok |-> FALSE, flag |-> EmptyFlag, filter |-> NilFilter, issues |-> <<>>,
           byPkgPath |-> EmptyMap]

\* part_000's New ignores its settings: one value stands for all of them.
Init ==
    /\ build \in Builds
    /\ settings \in [Filter : IF build = "deadcode" THEN FilterFlags ELSE {EmptyFlag}]
    /\ program \in {p \in Programs : /\ p.reach \subseteq 1..Len(p.funcs)
                                     /\ p.gen \subseteq LoadedFiles(p)}
    /\ pc = "start"
    /\ filter = NilFilter
    /\ sourceFuncs = <<>>
    /\ generated = {}
    /\ reachablePosn = {}
    /\ reachable0 = {}
    /\ idx = 1
    /\ byPkgPath = EmptyMap
    /\ keysLeft = {}
    /\ fnsLeft = {}
    /\ issues = <<>>
    /\ err = "nil"
    /\ linter = Nil
    /\ diags = <<>>
    /\ passed = {}
    /\ runNo = 1
    /\ prev = NoPrev

\* A fatal condition: deadcode.go returns (nil, err) and NewDeadCode returns
\* (nil, err); part_000 calls log.Fatalf, which exits the process.
Fatal(e) ==
    /\ pc' = IF build = "deadcode" THEN "failed" ELSE "exited"
    /\ err' = IF build = "deadcode" THEN e ELSE err
    /\ issues' = <<>>
    /\ linter' = Nil

-----------------------------------------------------------------------------
(* runAnalysis and the constructor.                                        *)

\* NewDeadCode: register.DecodeSettings rejects the settings.
DecodeFails ==
    /\ pc = "start"
    /\ build = "deadcode"
    /\ pc' = "failed"
    /\ err' = "decode settings"
    /\ linter' = Nil
    /\ UNCHANGED <<build, settings, program, filter, sourceFuncs, generated, reachablePosn,
                   reachable0, idx, byPkgPath, keysLeft, fnsLeft, issues, diags, passed,
                   runNo, prev>>

\* packages.Load and the three checks after it.
Load ==
    /\ pc = "start"
    /\ \E outcome \in {"ok", "Load", "no find packages", "packages contain errors"} :
          IF outcome = "ok"
          THEN pc' = "loaded" /\ UNCHANGED <<err, issues, linter>>
          ELSE Fatal(outcome)
    /\ UNCHANGED <<build, settings, program, filter, sourceFuncs, generated, reachablePosn,
                   reachable0, idx, byPkgPath, keysLeft, fnsLeft, diags, passed, runNo, prev>>

\* Whether a pattern is compiled at all: deadcode.go leaves filter nil when
\* Settings.Filter is empty; part_000 always compiles one.
HasPattern(b, flag) == b = "deadcode" => flag # EmptyFlag

\* The pattern source handed to regexp.Compile.  part_000 starts from the
\* fixed flag "<module>" and derives the pattern from the first module.
FilterSource(b, flag, mod) ==
    IF b = "deadcode" THEN flag
    ELSE IF ModuleFlag = <<"<module>">>
         THEN (IF mod # NoModule THEN <<"^">> \o QuoteMeta(mod) \o <<"\\b">> ELSE EmptyFlag)
         ELSE ModuleFlag

CompileFilter ==
    /\ pc = "loaded"
    /\ LET src == FilterSource(build, settings.Filter, program.mod)
       IN  IF ~HasPattern(build, settings.Filter)
           THEN pc' = "filtered" /\ filter' = NilFilter /\ UNCHANGED <<err, issues, linter>>
           ELSE IF CompileFails(src)
           THEN Fatal("failed create filter") /\ UNCHANGED filter
           ELSE pc' = "filtered" /\ filter' = Compile(src) /\ UNCHANGED <<err, issues, linter>>
    /\ UNCHANGED <<build, settings, program, sourceFuncs, generated, reachablePosn,
                   reachable0, idx, byPkgPath, keysLeft, fnsLeft, diags, passed, runNo, prev>>

\* ssautil.AllPackages, prog.Build, ssautil.MainPackages
BuildSSA ==
    /\ pc = "filtered"
    /\ \E hasMain \in BOOLEAN :
          IF hasMain
          THEN pc' = "built" /\ UNCHANGED <<err, issues, linter>>
          ELSE Fatal("no find main packages")
    /\ UNCHANGED <<build, settings, program, filter, sourceFuncs, generated, reachablePosn,
                   reachable0, idx, byPkgPath, keysLeft, fnsLeft, diags, passed, runNo, prev>>

\* packages.Visit: every FuncDecl becomes an entry of sourceFuncs; files that
\* ast.IsGenerated flags are recorded under their name.
Collect ==
    /\ pc = "built"
    /\ sourceFuncs' = [k \in 1..Len(Declared(program)) |-> FuncValue(Declared(program)[k], k)]
    /\ generated' = program.gen
    /\ pc' = "collected"
    /\ UNCHANGED <<build, settings, program, filter, reachablePosn, reachable0, idx,
                   byPkgPath, keysLeft, fnsLeft, issues, err, linter, diags, passed,
                   runNo, prev>>

\* res.Reachable of rta.Analyze(roots, false): the roots (the synthetic init and
\* main of the main package) and the functions the oracle reaches from them.
Reachable(prog, funcs) ==
    {RootInit, funcs[1]} \cup {funcs[k + 1] : k \in prog.reach}

\* A package-level map, kept from one call to the next.
StaleMap == reachablePosn

\* reachablePosn := make(map[token.Position]bool)
FreshMap == {}

\* for fn := range res.Reachable { if fn.Pos().IsValid() || fn.Name() == "init" ... }
ReachablePosn(reach) ==
    FreshMap \cup {fn.posn : fn \in {f \in reach : IsValid(f.posn) \/ f.name = "init"}}

Analyze ==
    /\ pc = "collected"
    /\ reachablePosn' = ReachablePosn(Reachable(program, sourceFuncs))
    /\ reachable0' = reachablePosn'
    /\ idx' = 1
    /\ byPkgPath' = EmptyMap
    /\ pc' = "resolve"
    /\ UNCHANGED <<build, settings, program, filter, sourceFuncs, generated, keysLeft,
                   fnsLeft, issues, err, linter, diags, passed, runNo, prev>>

\* if !reachablePosn[posn]
Unreached(reach, posn) == posn \notin reach

\* The guard insertion left out.
NoGuard(reach, posn) == reach

\* reachablePosn[posn] = true // suppress dups with same pos
Guard(reach, posn) == reach \cup {posn}

\* A new inner map made on every insertion, dropping the package's earlier entries.
AddFnFresh(m, pkgpath, fn) ==
    [p \in DOMAIN m \cup {pkgpath} |-> IF p = pkgpath THEN {fn} ELSE m[p]]

\* m, ok := byPkgPath[pkgpath]; if !ok { m = make(...) }; m[fn] = true
AddFn(m, pkgpath, fn) ==
    [p \in DOMAIN m \cup {pkgpath} |->
        IF p = pkgpath
        THEN (IF p \in DOMAIN m THEN m[p] ELSE {}) \cup {fn}
        ELSE m[p]]

\* One iteration of `for _, fn := range sourceFuncs`.
ResolveStep ==
    /\ pc = "resolve"
    /\ idx <= Len(sourceFuncs)
    /\ LET fn == sourceFuncs[idx]
       IN  IF Unreached(reachablePosn, fn.posn)
           THEN /\ reachablePosn' = Guard(reachablePosn, fn.posn)
                /\ byPkgPath' = AddFn(byPkgPath, fn.pkg, fn)
           ELSE UNCHANGED <<reachablePosn, byPkgPath>>
    /\ idx' = idx + 1
    /\ UNCHANGED <<build, settings, program, pc, filter, sourceFuncs, generated, reachable0,
                   keysLeft, fnsLeft, issues, err, linter, diags, passed, runNo, prev>>

\* The resolver loop ends; the report loop starts over the keys of byPkgPath.
ResolveDone ==
    /\ pc = "resolve"
    /\ idx > Len(sourceFuncs)
    /\ keysLeft' = DOMAIN byPkgPath
    /\ fnsLeft' = {}
    /\ issues' = <<>>
    /\ pc' = "report"
    /\ UNCHANGED <<build, settings, program, filter, sourceFuncs, generated, reachablePosn,
                   reachable0, idx, byPkgPath, err, linter, diags, passed, runNo, prev>>

\* The keys the outer report loop may take next: any key of a Go map in
\* deadcode.go (range maps.Keys), the least in part_000 (slices.Sorted).
NextKeys(b, keys) ==
    IF b = "deadcode" THEN keys
    ELSE {k \in keys : \A o \in keys : ~PathLess(o, k)}

\* The test with its negation dropped.
FilterSkipsNegated(f, pkgpath) == f # NilFilter /\ MatchString(f, pkgpath)

\* if filter != nil && !filter.MatchString(pkgpath) { continue }
\* (part_000: if !filter.MatchString(pkgpath), its filter is never nil)
FilterSkips(f, pkgpath) == f # NilFilter /\ ~MatchString(f, pkgpath)

\* The generated-file test left out.
GeneratedNeverSkips(gen, filename) == FALSE

\* if generated[pos.Filename] { continue }
GeneratedSkips(gen, filename) == filename \in gen

\* Issue{Func, Filename, Line}; part_000: Issue{Name, Filename, Line, Pos}
MakeIssue(b, fn) ==
    IF b = "deadcode"
    THEN [Func |-> fn.name, Filename |-> Rel(fn.posn.Filename), Line |-> fn.posn.Line]
    ELSE [Name |-> fn.name, Filename |-> Rel(fn.posn.Filename), Line |-> fn.posn.Line,
          Pos |-> fn.posn]

\* One iteration of the outer report loop.
ReportPkg ==
    /\ pc = "report"
    /\ keysLeft # {}
    /\ \E pkgpath \in NextKeys(build, keysLeft) :
          /\ keysLeft' = keysLeft \ {pkgpath}
          /\ IF FilterSkips(filter, pkgpath)
             THEN UNCHANGED <<fnsLeft, pc>>
             ELSE fnsLeft' = byPkgPath[pkgpath] /\ pc' = "reportFns"
    /\ UNCHANGED <<build, settings, program, filter, sourceFuncs, generated, reachablePosn,
                   reachable0, idx, byPkgPath, issues, err, linter, diags, passed, runNo,
                   prev>>

\* One iteration of the inner report loop: the functions of a package come in
\* map order in both builds.
ReportFn ==
    /\ pc = "reportFns"
    /\ \E fn \in fnsLeft :
          /\ fnsLeft' = fnsLeft \ {fn}
          /\ issues' = IF GeneratedSkips(generated, fn.posn.Filename)
                       THEN issues
                       ELSE Append(issues, MakeIssue(build, fn))
          /\ pc' = IF fnsLeft' = {} THEN "report" ELSE "reportFns"
    /\ UNCHANGED <<build, settings, program, filter, sourceFuncs, generated, reachablePosn,
                   reachable0, idx, byPkgPath, keysLeft, err, linter, diags, passed, runNo,
                   prev>>

\* return issues, nil; the constructor returns &DeadCode{issues}, nil
Return ==
    /\ pc = "report"
    /\ keysLeft = {}
    /\ linter' = [issues |-> issues]
    /\ pc' = "ready"
    /\ UNCHANGED <<build, settings, program, filter, sourceFuncs, generated, reachablePosn,
                   reachable0, idx, byPkgPath, keysLeft, fnsLeft, issues, err, diags,
                   passed, runNo, prev>>

-----------------------------------------------------------------------------
(* DeadCode.run, called by the host once per package.                      *)

\* The packages the host lints: those of the module, not its dependencies.
HostPkgs == {PkgApp, PkgInternal}

\* pass.Files of the pass of a package
PassFiles(pkgpath) == <<FileOf(pkgpath)>>

\* The FuncDecl nodes ast.Inspect meets in a file, in source order.
FileDecls(prog, file) ==
    SelectSeq(AllDecls, LAMBDA d : d.posn.Filename = file /\ d \in Range(Declared(prog)))

\* The diagnostics of one (file, issue) pair.  deadcode.go reports at every
\* FuncDecl of the file that starts on the issue's line; part_000 reports once,
\* at issue.Pos.
IssueDiags(b, prog, file, issue) ==
    IF Rel(file) # issue.Filename THEN <<>>
    ELSE IF b = "deadcode"
    THEN LET hit == SelectSeq(FileDecls(prog, file), LAMBDA d : d.posn.Line = issue.Line)
         IN  [k \in 1..Len(hit) |->
                [Pos |-> hit[k].posn, Message |-> <<"func", issue.Func, "is unused">>]]
    ELSE <<[Pos |-> issue.Pos, Message |-> <<"unused func", issue.Name>>]>>

RECURSIVE FileDiags(_, _, _, _)
FileDiags(b, prog, file, iss) ==
    IF Len(iss) = 0 THEN <<>>
    ELSE IssueDiags(b, prog, file, Head(iss)) \o FileDiags(b, prog, file, Tail(iss))

RECURSIVE RunDiags(_, _, _, _)
RunDiags(b, prog, files, iss) ==
    IF Len(files) = 0 THEN <<>>
    ELSE FileDiags(b, prog, Head(files), iss) \o RunDiags(b, prog, Tail(files), iss)

RunPass ==
    /\ pc = "ready"
    /\ \E pkgpath \in HostPkgs \ passed :
          /\ passed' = passed \cup {pkgpath}
          /\ diags' = diags \o RunDiags(build, program, PassFiles(pkgpath), linter.issues)
    /\ UNCHANGED <<build, settings, program, pc, filter, sourceFuncs, generated,
                   reachablePosn, reachable0, idx, byPkgPath, keysLeft, fnsLeft, issues,
                   err, linter, runNo, prev>>

\* The host constructs the linter a second time, for the same program and
\* possibly with another filter, before any pass has run.  The locals of the
\* finished call are gone; reachablePosn is made anew by the next Analyze.
Rerun ==
    /\ pc = "ready"
    /\ runNo = 1
    /\ passed = {}
    /\ prev' = [ok |-> TRUE, flag |-> settings.Filter, filter |-> filter,
                issues |-> issues, byPkgPath |-> byPkgPath]
    /\ settings' \in [Filter : IF build = "deadcode" THEN FilterFlags ELSE {EmptyFlag}]
    /\ runNo' = 2
    /\ pc' = "start"
    /\ filter' = NilFilter
    /\ sourceFuncs' = <<>>
    /\ generated' = {}
    /\ reachable0' = {}
    /\ idx' = 1
    /\ byPkgPath' = EmptyMap
    /\ keysLeft' = {}
    /\ fnsLeft' = {}
    /\ issues' = <<>>
    /\ err' = "nil"
    /\ linter' = Nil
    /\ UNCHANGED <<build, program, reachablePosn, diags, passed>>

Next ==
    \/ DecodeFails
    \/ Load
    \/ CompileFilter
    \/ BuildSSA
    \/ Collect
    \/ Analyze
    \/ ResolveStep
    \/ ResolveDone
    \/ ReportPkg
    \/ ReportFn
    \/ Return
    \/ RunPass
    \/ Rerun

Spec == Init /\ [][Next]_vars

-----------------------------------------------------------------------------
(* Properties.                                                             *)

\* A package path passes the active filter (a nil filter passes everything).
Matches(f, pkgpath) == f = NilFilter \/ MatchString(f, pkgpath)

\* A strictly wider filter: matches every path the other matches, and more.
Wider(a, b) ==
    /\ \A p \in PkgPaths : Matches(a, p) => Matches(b, p)
    /\ \E p \in PkgPaths : Matches(b, p) /\ ~Matches(a, p)

\* The Issue a function would be reported as.
IssueOf(fn) == MakeIssue(build, fn)

\* The package of the function an Issue reports.
IssuePkg(issue) == (CHOOSE fn \in Range(sourceFuncs) : IssueOf(fn) = issue).pkg

\* A package path at or under a module path.
UnderModule(pkgpath, mod) ==
    /\ Len(pkgpath) >= Len(mod)
    /\ SubSeq(pkgpath, 1, Len(mod)) = mod
    /\ Len(pkgpath) = Len(mod) \/ pkgpath[Len(mod) + 1] = "/"

\* A declared function the report must contain: unreached by the oracle, not
\* in a generated file, in a package the filter passes.
Qualifies(fn) ==
    /\ fn.posn \notin reachable0
    /\ fn.posn.Filename \notin generated
    /\ Matches(filter, fn.pkg)

\* runAnalysis has returned its Issue list.
Returned == pc = "ready"

\* Both calls of the constructor have returned a linter.
BothReturned == runNo = 2 /\ prev.ok /\ Returned

\* C1 (completeness): when runAnalysis returns, every declared function whose
\* position the oracle did not reach, whose file is not generated and whose
\* package passes the filter is reported by exactly one Issue.
C1_Completeness ==
    Returned =>
        \A fn \in Range(sourceFuncs) : Qualifies(fn) => Count(issues, IssueOf(fn)) = 1

\* Two dead functions of one package, each reported once.
C1_Witness ==
    /\ Returned
    /\ \E fn, gn \in Range(sourceFuncs) :
          /\ fn.pkg = gn.pkg /\ fn.posn # gn.posn
          /\ Qualifies(fn) /\ Qualifies(gn)
          /\ Count(issues, IssueOf(fn)) = 1 /\ Count(issues, IssueOf(gn)) = 1

\* C2 (soundness): every Issue in the list is the Issue of exactly one declared
\* position, and that declaration was unreached before any guard insertion, is
\* in a package the filter passes and is not in a generated file; no function
\* of a generated file is ever reported.
C2_Soundness ==
    /\ \A i \in 1..Len(issues) :
          /\ Cardinality({fn.posn : fn \in {f \in Range(sourceFuncs) : IssueOf(f) = issues[i]}}) = 1
          /\ \A fn \in Range(sourceFuncs) : IssueOf(fn) = issues[i] => Qualifies(fn)
    /\ \A fn \in Range(sourceFuncs) :
          fn.posn.Filename \in generated => IssueOf(fn) \notin Range(issues)

\* A dead function of a generated file is left out while another is reported.
C2_Witness ==
    /\ Returned
    /\ Len(issues) >= 1
    /\ \E fn \in Range(sourceFuncs) :
          /\ fn.posn \notin reachable0
          /\ Matches(filter, fn.pkg)
          /\ fn.posn.Filename \in generated

\* C3 (initializer exemption): the list runAnalysis returns holds no Issue for
\* a package initializer, declared (init#1) or synthetic (init), whether or not
\* the oracle lists it.
C3_InitNeverReported ==
    Returned =>
        \A fn \in Range(sourceFuncs) :
            fn.name \in {"init", "init#1"} => IssueOf(fn) \notin Range(issues)

\* C4 (dedup): the resolver admits at most one function per source position
\* into byPkgPath, and no position is reported by more than one Issue.
C4_Dedup ==
    /\ \A p, q \in DOMAIN byPkgPath : \A f \in byPkgPath[p], g \in byPkgPath[q] :
          f.posn = g.posn => f = g
    /\ \A fn \in Range(sourceFuncs) : Count(issues, IssueOf(fn)) <= 1

\* Two IR functions of one unreached declaration, reported by one Issue.
C4_Witness ==
    /\ Returned
    /\ \E j, k \in 1..Len(sourceFuncs) :
          /\ j # k
          /\ sourceFuncs[j].posn = sourceFuncs[k].posn
          /\ sourceFuncs[j].posn \notin reachable0
          /\ Count(issues, IssueOf(sourceFuncs[j])) = 1

\* C5 (report ordering): the Issue list runAnalysis returns is in ascending
\* order of package path, whatever the iteration order of the maps.
C5_SortedByPkgPath ==
    Returned =>
        \A i, j \in 1..Len(issues) :
            i < j => ~PathLess(IssuePkg(issues[j]), IssuePkg(issues[i]))

\* C6 (default filter): with no filter configured and a known module path,
\* every Issue is for a package at or under the module path.
C6_DefaultFilter ==
    (Returned /\ settings.Filter = EmptyFlag /\ program.mod # NoModule) =>
        \A i \in 1..Len(issues) : UnderModule(IssuePkg(issues[i]), program.mod)

\* C7 (fatal conditions): a fatal condition never ends the process; it returns
\* an error, no Issues and no linter.
C7_FatalReturnsError ==
    /\ pc # "exited"
    /\ pc = "failed" => (err # "nil" /\ issues = <<>> /\ linter = Nil)

\* C8 as stated (idempotence including order): two calls on the same program
\* with the same settings return the same Issue sequence.
C8_SameSequence ==
    (BothReturned /\ prev.flag = settings.Filter) => issues = prev.issues

\* C8 as amended: two calls on the same program with the same settings return
\* the same Issues, each as often, in an order that may differ; the guards of
\* the first call do not reach the second.
C8_SameIssues ==
    (BothReturned /\ prev.flag = settings.Filter) =>
        /\ Len(issues) = Len(prev.issues)
        /\ \A x \in Range(issues) \cup Range(prev.issues) :
              Count(issues, x) = Count(prev.issues, x)

\* A second call that reports the Issues of the first in another order.
C8_Witness ==
    /\ BothReturned
    /\ prev.flag = settings.Filter
    /\ Len(issues) >= 2
    /\ issues # prev.issues

\* C9 (monotonicity under filter widening): when the second call's filter is
\* strictly wider than the first's, every Issue of the first call is an Issue
\* of the second; and the resolver's grouping does not depend on the filter.
C9_Monotone ==
    BothReturned =>
        /\ byPkgPath = prev.byPkgPath
        /\ Wider(prev.filter, filter) => Range(prev.issues) \subseteq Range(issues)

\* A strictly wider second filter that keeps the Issues of the first and adds one.
C9_Witness ==
    /\ BothReturned
    /\ Wider(prev.filter, filter)
    /\ Len(prev.issues) >= 1
    /\ Len(issues) > Len(prev.issues)

\* C10 (diagnostic emission), for DeadCode.run of src/deadcode.go, whose
\* message the claim quotes: every diagnostic is `func <name> is unused` at the
\* position of the dead declaration of one of the linter's Issues, and once
\* every pass has run each Issue of a linted file has exactly one diagnostic.
C10_DiagnosticsOnlyOnDead ==
    build = "deadcode" =>
    /\ \A k \in 1..Len(diags) :
          \E fn \in Range(sourceFuncs) :
              /\ IssueOf(fn) \in Range(linter.issues)
              /\ diags[k].Pos = fn.posn
              /\ diags[k].Message = <<"func", fn.name, "is unused">>
    /\ passed = HostPkgs =>
          \A fn \in Range(sourceFuncs) :
              (IssueOf(fn) \in Range(linter.issues) /\ fn.pkg \in HostPkgs) =>
                  Cardinality({k \in 1..Len(diags) : diags[k].Pos = fn.posn}) = 1

====
